---- MODULE Spec2Model ----
(***************************************************************************)
(* Sprite-sheet segmentation of monster-forge: the SpriteExtractor service *)
(* (src/src/services/spriteExtractor.js).  One extractor instance receives *)
(* uploaded images one after another; each call of extractFromImage is     *)
(* analyzeImage, detectSpriteType and one of three extraction branches.    *)
(* Pixel buffers are modelled pixel by pixel at the program's own sizes.   *)
(***************************************************************************)
EXTENDS Integers, Sequences, FiniteSets, TLC

Max(a, b) == IF a >= b THEN a ELSE b

Min(a, b) == IF a <= b THEN a ELSE b

Null == [null |-> TRUE]

(***************************************************************************)
(* Pixels: one RGBA sample of an ImageData buffer.  A buffer is a record   *)
(* [width, height, data] with data[y * width + x] the pixel at (x, y).     *)
(***************************************************************************)
Px(r, g, b, a) == [r |-> r, g |-> g, b |-> b, a |-> a]

Clear == Px(0, 0, 0, 0)

Red == Px(200, 50, 50, 255)

Blue == Px(40, 60, 220, 255)

White == Px(255, 255, 255, 255)

Black == Px(0, 0, 0, 255)

Faint == Px(200, 50, 50, 50)

Dim == Px(200, 50, 50, 51)

Half == Px(200, 50, 50, 127)

\* the greys at the limits of the colour test of hasContent
Pale == Px(240, 240, 240, 255)

Soot == Px(15, 15, 15, 255)

(***************************************************************************)
(* Uploaded files.  A file is described by its size, its background pixel  *)
(* and the rectangles painted over it in order (the last one wins).        *)
(***************************************************************************)
Rect(x, y, w, h, px) == [x |-> x, y |-> y, width |-> w, height |-> h, px |-> px]

File(name, w, h, bg, rects) ==
    [name |-> name, width |-> w, height |-> h, bg |-> bg, rects |-> rects]

InRect(r, x, y) ==
    /\ x >= r.x /\ x < r.x + r.width
    /\ y >= r.y /\ y < r.y + r.height

PixelOf(f, x, y) ==
    LET hits == {k \in 1..Len(f.rects) : InRect(f.rects[k], x, y)}
    IN  IF hits = {} THEN f.bg
        ELSE f.rects[CHOOSE k \in hits : \A j \in hits : j <= k].px

\* n copies of the sequence s, one after another
RECURSIVE Repeat(_, _)
Repeat(s, n) ==
    IF n <= 0 THEN <<>>
    ELSE LET half == Repeat(s, n \div 2)
         IN  IF n % 2 = 0 THEN half \o half ELSE half \o half \o s

\* part[1] \o part[2] \o ... \o part[n]
RECURSIVE Concat(_, _, _)
Concat(part, lo, hi) ==
    IF lo > hi THEN <<>>
    ELSE IF lo = hi THEN part[lo]
    ELSE LET mid == (lo + hi) \div 2
         IN  Concat(part, lo, mid) \o Concat(part, mid + 1, hi)

\* count[lo] + ... + count[hi]
RECURSIVE Sum(_, _, _)
Sum(count, lo, hi) ==
    IF lo > hi THEN 0
    ELSE IF lo = hi THEN count[lo]
    ELSE LET mid == (lo + hi) \div 2
         IN  Sum(count, lo, mid) + Sum(count, mid + 1, hi)

\* the values of a finite set of integers in increasing order
Ascending(S) ==
    [k \in 1..Cardinality(S) |->
        CHOOSE m \in S : Cardinality({j \in S : j < m}) = k - 1]

\* loadImage + drawImage + getImageData: the decoded pixel buffer of a file,
\* row after row; data[y * width + x + 1] is the pixel at (x, y).  The picture
\* is constant between two neighbouring rectangle edges, so it is put
\* together from runs of equal pixels.
LoadImage(f) ==
    LET xs == Ascending(({0, f.width}
                \cup {f.rects[k].x : k \in 1..Len(f.rects)}
                \cup {f.rects[k].x + f.rects[k].width : k \in 1..Len(f.rects)})
                \cap (0..f.width))
        ys == Ascending(({0, f.height}
                \cup {f.rects[k].y : k \in 1..Len(f.rects)}
                \cup {f.rects[k].y + f.rects[k].height : k \in 1..Len(f.rects)})
                \cap (0..f.height))
        RowAt(y) ==
            Concat([j \in 1..(Len(xs) - 1) |->
                       Repeat(<<PixelOf(f, xs[j], y)>>, xs[j + 1] - xs[j])],
                   1, Len(xs) - 1)
    IN  [width |-> f.width, height |-> f.height,
         data |-> Concat([k \in 1..(Len(ys) - 1) |->
                            Repeat(RowAt(ys[k]), ys[k + 1] - ys[k])],
                         1, Len(ys) - 1)]

\* the pixel at (x, y) of a buffer
At(img, x, y) == img.data[y * img.width + x + 1]

(***************************************************************************)
(* constructor (lines 12-16): `options.x || default`, so that an omitted   *)
(* option and a falsy one (0) both give the default.  An omitted option is *)
(* a field the options record does not have.                               *)
(***************************************************************************)
OrDefault(options, key, default) ==
    IF key \in DOMAIN options /\ options[key] # 0 THEN options[key] ELSE default

DefaultCellSize == 64

DefaultMinPixelThreshold == 500

DefaultMaxSprites == 64

SpriteExtractor(options) ==
    [cellSize |-> OrDefault(options, "cellSize", DefaultCellSize),
     minPixelThreshold |->
         OrDefault(options, "minPixelThreshold", DefaultMinPixelThreshold),
     maxSprites |-> OrDefault(options, "maxSprites", DefaultMaxSprites)]

(***************************************************************************)
(* analyzeImage (lines 45-106).  The two ratios are kept as the counts     *)
(* they are quotients of; `t / n > 0.05` is 20 * t > n and `e / m > 0.5`   *)
(* is 2 * e > m in exact arithmetic (the doubles decide the same way for   *)
(* every buffer a canvas can hold).                                        *)
(***************************************************************************)
IsTransparent(px) == px.a < 128

IsEdge_Band4(x, y, width, height) ==
    x < 4 \/ x >= width - 4 \/ y < 4 \/ y >= height - 4

IsEdge(x, y, width, height) ==
    x < 5 \/ x >= width - 5 \/ y < 5 \/ y >= height - 5

HasTransparency(transparentPixels, totalPixels) ==
    20 * transparentPixels > totalPixels

HasTransparentEdges_Geq(edgeTransparent, totalEdgePixels) ==
    totalEdgePixels > 0 /\ 2 * edgeTransparent >= totalEdgePixels

HasTransparentEdges(edgeTransparent, totalEdgePixels) ==
    totalEdgePixels > 0 /\ 2 * edgeTransparent > totalEdgePixels

AnalyzeImage(img) ==
    LET width == img.width
        height == img.height
        totalPixels == width * height
        transparentPixels ==
            Sum([y \in 0..(height - 1) |->
                    Cardinality({x \in 0..(width - 1) :
                                    IsTransparent(At(img, x, y))})],
                0, height - 1)
        totalEdgePixels ==
            Sum([y \in 0..(height - 1) |->
                    Cardinality({x \in 0..(width - 1) :
                                    IsEdge(x, y, width, height)})],
                0, height - 1)
        edgeTransparent ==
            Sum([y \in 0..(height - 1) |->
                    Cardinality({x \in 0..(width - 1) :
                                    /\ IsEdge(x, y, width, height)
                                    /\ IsTransparent(At(img, x, y))})],
                0, height - 1)
    IN  [hasTransparency |-> HasTransparency(transparentPixels, totalPixels),
         hasTransparentEdges |->
             HasTransparentEdges(edgeTransparent, totalEdgePixels),
         transparentPixels |-> transparentPixels,
         totalPixels |-> totalPixels,
         edgeTransparent |-> edgeTransparent,
         totalEdgePixels |-> totalEdgePixels]

(***************************************************************************)
(* findGaps (lines 227-280).  The loop keeps gapStart, the first row of    *)
(* the current run of empty rows, and at each non-empty row y that ends a  *)
(* run of at least minGapSize rows pushes floor((gapStart + y) / 2).  A    *)
(* run that reaches the last row is never closed.  Written without the     *)
(* loop: one midpoint per non-empty row that follows an empty one.         *)
(***************************************************************************)
minGapSize == 8

IsVisible(px) == px.a > 50

RowEmpty(img, y) ==
    \A x \in 0..(img.width - 1) : ~IsVisible(At(img, x, y))

ColEmpty(img, x) ==
    \A y \in 0..(img.height - 1) : ~IsVisible(At(img, x, y))

GapLongEnough_Seven(gapStart, pos) == pos - gapStart >= 7

GapLongEnough(gapStart, pos) == pos - gapStart >= minGapSize

GapsOf(full) ==
    LET gapStartAt(pos) ==
            LET before == {k \in full : k < pos}
            IN  IF before = {} THEN 0
                ELSE 1 + (CHOOSE k \in before : \A j \in before : j <= k)
        closing == {pos \in full : pos > 0 /\ (pos - 1) \notin full
                                    /\ GapLongEnough(gapStartAt(pos), pos)}
    IN  Ascending({(gapStartAt(pos) + pos) \div 2 : pos \in closing})

FindGaps(img, direction) ==
    IF direction = "horizontal"
    THEN GapsOf({y \in 0..(img.height - 1) : ~RowEmpty(img, y)})
    ELSE GapsOf({x \in 0..(img.width - 1) : ~ColEmpty(img, x)})

(***************************************************************************)
(* regionHasContent (lines 285-299): true as soon as the count of visible  *)
(* pixels of the region passes 100.  A pixel outside the buffer reads as   *)
(* undefined, which is not > 50.                                           *)
(***************************************************************************)
\* data[(y * imgWidth + x) * 4 + 3] > 50; an index past the end of the
\* buffer reads undefined, which is not > 50
VisibleAt(img, x, y) ==
    /\ y * img.width + x < img.width * img.height
    /\ IsVisible(img.data[y * img.width + x + 1])

\* the value count would reach if the loops ran to their end
VisibleCount(img, region) ==
    Sum([y \in region.y..(region.y + region.height - 1) |->
            Cardinality({x \in region.x..(region.x + region.width - 1) :
                            VisibleAt(img, x, y)})],
        region.y, region.y + region.height - 1)

EnoughVisible_Any(count) == count > 0

EnoughVisible(count) == count > 100

RegionHasContent(img, region) == EnoughVisible(VisibleCount(img, region))

(***************************************************************************)
(* trimRegion (lines 304-331)                                              *)
(***************************************************************************)
MinOf(S, default) ==
    IF S = {} THEN default ELSE CHOOSE m \in S : \A k \in S : m <= k

MaxOf(S, default) ==
    IF S = {} THEN default ELSE CHOOSE m \in S : \A k \in S : m >= k

padding == 2

\* line 322: maxX < minX || maxY < minY
NoContentFound_Leq(minX, maxX, minY, maxY) == maxX <= minX \/ maxY <= minY

NoContentFound(minX, maxX, minY, maxY) == maxX < minX \/ maxY < minY

TrimRegion(img, region) ==
    LET imgWidth == img.width
        imgHeight == img.height
        xs == region.x..(Min(region.x + region.width, imgWidth) - 1)
        ys == region.y..(Min(region.y + region.height, imgHeight) - 1)
        seenX == {x \in xs : \E y \in ys : IsVisible(At(img, x, y))}
        seenY == {y \in ys : \E x \in xs : IsVisible(At(img, x, y))}
        minX == MinOf(seenX, region.x + region.width)
        minY == MinOf(seenY, region.y + region.height)
        maxX == MaxOf(seenX, region.x)
        maxY == MaxOf(seenY, region.y)
    IN  IF NoContentFound(minX, maxX, minY, maxY) THEN Null
        ELSE [x |-> Max(0, minX - padding),
              y |-> Max(0, minY - padding),
              width |-> Min(imgWidth - minX + padding,
                            maxX - minX + 1 + padding * 2),
              height |-> Min(imgHeight - minY + padding,
                             maxY - minY + 1 + padding * 2)]

(***************************************************************************)
(* findSpriteRegions (lines 183-222): the cells between neighbouring       *)
(* boundaries, row by row, each kept when it has content and its trimmed   *)
(* box is larger than 10 x 10.                                             *)
(***************************************************************************)
Boundaries_NoEnd(gaps, size) == <<0>> \o gaps

Boundaries(gaps, size) == <<0>> \o gaps \o <<size>>

\* the candidate cells in the order the two loops visit them (yi, then xi)
CandidateCells(xBoundaries, yBoundaries) ==
    LET nx == Len(xBoundaries) - 1
        ny == Len(yBoundaries) - 1
    IN  [k \in 1..(nx * ny) |->
            LET xi == ((k - 1) % nx) + 1
                yi == ((k - 1) \div nx) + 1
            IN  [x |-> xBoundaries[xi],
                 y |-> yBoundaries[yi],
                 width |-> xBoundaries[xi + 1] - xBoundaries[xi],
                 height |-> yBoundaries[yi + 1] - yBoundaries[yi]]]

LargeEnough_Any(trimmed) == trimmed.width > 0 /\ trimmed.height > 0

LargeEnough(trimmed) == trimmed.width > 10 /\ trimmed.height > 10

RECURSIVE CollectRegions(_, _, _, _)
CollectRegions(img, cells, k, regions) ==
    IF k > Len(cells) THEN regions
    ELSE IF RegionHasContent(img, cells[k])
         THEN LET trimmed == TrimRegion(img, cells[k])
              IN  IF trimmed # Null /\ LargeEnough(trimmed)
                  THEN CollectRegions(img, cells, k + 1, Append(regions, trimmed))
                  ELSE CollectRegions(img, cells, k + 1, regions)
         ELSE CollectRegions(img, cells, k + 1, regions)

FindSpriteRegions(img) ==
    LET horizontalGaps == FindGaps(img, "horizontal")
        verticalGaps == FindGaps(img, "vertical")
    IN  IF Len(horizontalGaps) = 0 /\ Len(verticalGaps) = 0 THEN <<>>
        ELSE CollectRegions(img,
                 CandidateCells(Boundaries(verticalGaps, img.width),
                                Boundaries(horizontalGaps, img.height)),
                 1, <<>>)

(***************************************************************************)
(* detectGrid (lines 161-178)                                              *)
(***************************************************************************)
possibleSizes_Ascending == <<16, 32, 48, 64, 96, 128>>

possibleSizes == <<128, 96, 64, 48, 32, 16>>

CellCountOk_Below(cols, rows) ==
    cols >= 2 /\ rows >= 1 /\ cols * rows >= 2 /\ cols * rows < 64

CellCountOk(cols, rows) ==
    cols >= 2 /\ rows >= 1 /\ cols * rows >= 2 /\ cols * rows <= 64

GridAccepted_WidthOnly(width, height, size) ==
    /\ width % size = 0
    /\ CellCountOk(width \div size, height \div size)

GridAccepted(width, height, size) ==
    /\ width % size = 0 /\ height % size = 0
    /\ CellCountOk(width \div size, height \div size)

DetectGrid(width, height) ==
    LET hits == {k \in 1..Len(possibleSizes) :
                    GridAccepted(width, height, possibleSizes[k])}
    IN  IF hits = {} THEN Null
        ELSE LET size == possibleSizes[CHOOSE k \in hits : \A j \in hits : k <= j]
             IN  [cols |-> width \div size, rows |-> height \div size,
                  cellSize |-> size]

(***************************************************************************)
(* detectSpriteType (lines 111-156)                                        *)
(***************************************************************************)
IsSmallImage_Half(width, height) == width < 100 /\ height < 100

IsSmallImage(width, height) == width < 200 /\ height < 200

RegionCountOk_Empty(n) == n <= 20

RegionCountOk_NoCap(n) == n > 0

RegionCountOk(n) == n > 0 /\ n <= 20

DetectSpriteType(img, analysis) ==
    LET width == img.width
        height == img.height
    IN  IF IsSmallImage(width, height) THEN [type |-> "single"]
        ELSE IF analysis.hasTransparency /\ analysis.hasTransparentEdges
        THEN LET regions == FindSpriteRegions(img)
             IN  IF RegionCountOk(Len(regions))
                 THEN [type |-> "regions", regions |-> regions,
                       width |-> width, height |-> height]
                 ELSE LET gridInfo == DetectGrid(width, height)
                      IN  IF gridInfo # Null
                          THEN [type |-> "grid", cols |-> gridInfo.cols,
                                rows |-> gridInfo.rows,
                                cellSize |-> gridInfo.cellSize]
                          ELSE [type |-> "single"]
        ELSE [type |-> "single"]

(***************************************************************************)
(* Canvas: drawImage of the source rectangle (sx, sy, sw, sh) of img at    *)
(* (dx, dy) on a cleared canvas, then getImageData of the whole canvas.    *)
(* The part of the source rectangle outside the image draws nothing, and   *)
(* the part of the canvas not drawn on stays transparent black.  A decoded *)
(* buffer comes from a canvas itself, so its pixels read back as they are. *)
(***************************************************************************)
DrawImage(img, sx, sy, sw, sh, dx, dy, canvasWidth, canvasHeight) ==
    LET x0 == Max(sx, 0)
        x1 == Min(sx + sw, img.width)
        y0 == Max(sy, 0)
        y1 == Min(sy + sh, img.height)
        left == Min(canvasWidth, dx + (x0 - sx))
        drawn == Max(0, Min(x1 - x0, canvasWidth - left))
        right == canvasWidth - left - drawn
        top == Min(canvasHeight, dy + (y0 - sy))
        rows == Max(0, Min(y1 - y0, canvasHeight - top))
        bottom == canvasHeight - top - rows
        blank == Repeat(<<Clear>>, canvasWidth)
        RowAt(y) == Repeat(<<Clear>>, left)
                    \o SubSeq(img.data, y * img.width + x0 + 1,
                              y * img.width + x0 + drawn)
                    \o Repeat(<<Clear>>, right)
    IN  [width |-> canvasWidth, height |-> canvasHeight,
         data |-> Repeat(blank, top)
                  \o Concat([k \in 1..rows |-> RowAt(y0 + k - 1)], 1, rows)
                  \o Repeat(blank, bottom)]

(***************************************************************************)
(* hasContent (lines 438-459)                                              *)
(***************************************************************************)
IsColored(px) ==
    ~(\/ (px.r > 240 /\ px.g > 240 /\ px.b > 240)
      \/ (px.r < 15 /\ px.g < 15 /\ px.b < 15))

\* the two counts, taken a row at a time
VisiblePixels_Bytes(imageData) == 4 * Len(imageData.data)

VisiblePixels(imageData) ==
    Sum([y \in 0..(imageData.height - 1) |->
            Cardinality({x \in 0..(imageData.width - 1) :
                            IsVisible(At(imageData, x, y))})],
        0, imageData.height - 1)

IsVisibleColored(px) == IsVisible(px) /\ IsColored(px)

ColoredPixels(imageData) ==
    Sum([y \in 0..(imageData.height - 1) |->
            Cardinality({x \in 0..(imageData.width - 1) :
                            IsVisibleColored(At(imageData, x, y))})],
        0, imageData.height - 1)

HasContent_PixelsOnly(extractor, imageData) ==
    VisiblePixels(imageData) > extractor.minPixelThreshold

HasContent(extractor, imageData) ==
    LET hasEnoughPixels == VisiblePixels(imageData) > extractor.minPixelThreshold
        hasEnoughColor == ColoredPixels(imageData) > 50
    IN  hasEnoughPixels /\ hasEnoughColor

(***************************************************************************)
(* The files a session uploads.  Sprites sit on a transparent background   *)
(* unless the name says otherwise; every file has the program's own sizes  *)
(* (the 200 px limit, the grid cell sizes, the 8 px gaps).                 *)
(***************************************************************************)
\* one blob of side `side` at offset `off` in each cell of a cols x rows grid
Blobs(cols, rows, cell, off, side, px) ==
    [k \in 1..(cols * rows) |->
        Rect(((k - 1) % cols) * cell + off, ((k - 1) \div cols) * cell + off,
             side, side, px)]

\* `count` sprites of 11 x 11, `perRow` to a row, 8 transparent pixels apart
Crowd(count, perRow) ==
    [k \in 1..count |->
        Rect(4 + 19 * ((k - 1) % perRow), 4 + 19 * ((k - 1) \div perRow),
             11, 11, Red)]

Dot == File("dot", 1, 1, Clear, <<>>)

Blank64 == File("blank64", 64, 64, Clear, <<>>)

Hero64 == File("hero64", 64, 64, Clear, <<Rect(8, 8, 48, 48, Red)>>)

PairRects == <<Rect(10, 5, 30, 30, Red), Rect(60, 5, 30, 30, Blue)>>

Pair199 == File("pair199", 199, 40, Clear, PairRects)

Pair200 == File("pair200", 200, 40, Clear, PairRects)

PairTall == File("pairTall", 40, 200, Clear,
                 <<Rect(5, 10, 30, 30, Red), Rect(5, 60, 30, 30, Blue)>>)

Sheet128 == File("sheet128", 128, 64, Clear, Blobs(2, 1, 64, 3, 58, Red))

Portrait == File("portrait", 300, 300, White, <<Rect(100, 80, 100, 140, Red)>>)

OpaqueSheet == File("opaqueSheet", 256, 128, White, Blobs(4, 2, 64, 3, 58, Blue))

HalfEdge == File("halfEdge", 200, 20, Clear, <<Rect(0, 10, 200, 10, Red)>>)

TwoSprites == File("twoSprites", 300, 100, Clear,
                   <<Rect(60, 10, 80, 80, Red), Rect(160, 10, 80, 80, Blue)>>)

TwoSpritesLeft == File("twoSpritesLeft", 300, 100, Clear,
                       <<Rect(1, 10, 80, 80, Red), Rect(101, 10, 80, 80, Blue)>>)

SheetGaps == File("sheetGaps", 256, 128, Clear, Blobs(4, 2, 64, 8, 48, Red))

SheetTight == File("sheetTight", 256, 128, Clear, Blobs(4, 2, 64, 3, 58, Red))

Blank256 == File("blank256", 256, 128, Clear, <<>>)

Blank250 == File("blank250", 250, 100, Clear, <<>>)

Crowd22 == File("crowd22", 224, 48, Clear, Crowd(22, 11))

Crowd21 == File("crowd21", 224, 48, Clear, Crowd(21, 11))

Crowd20 == File("crowd20", 224, 48, Clear, Crowd(20, 11))

Crowd22Odd == File("crowd22Odd", 225, 48, Clear, Crowd(22, 11))

Frame256 == File("frame256", 256, 256, White,
                 <<Rect(0, 0, 256, 5, Clear), Rect(0, 251, 256, 5, Clear)>>)

\* a sprite, five stray pixels, a block of alpha 50, one of exactly 100
\* visible pixels and one of 101
Sparse == File("sparse", 300, 40, Clear,
               <<Rect(20, 5, 30, 30, Red),
                 Rect(70, 10, 1, 1, Dim), Rect(72, 12, 1, 1, Dim),
                 Rect(74, 14, 1, 1, Dim), Rect(76, 16, 1, 1, Dim),
                 Rect(77, 17, 1, 1, Dim),
                 Rect(100, 5, 30, 30, Faint),
                 Rect(150, 10, 10, 10, Half),
                 Rect(180, 10, 10, 10, Red), Rect(190, 10, 1, 1, Red)>>)

\* two sprites of 11 x 10 in a strip 200 wide
Twins == File("twins", 200, 14, Clear,
              <<Rect(10, 2, 11, 10, Red), Rect(40, 2, 11, 10, Blue)>>)

\* a sprite and a sliver 4 pixels wide
Sliver == File("sliver", 200, 40, Clear,
               <<Rect(20, 5, 30, 30, Red), Rect(100, 5, 4, 30, Blue)>>)

\* a white sprite and a small one: regions that fail the strict content test
Ghost == File("ghost", 200, 40, Clear,
              <<Rect(20, 5, 30, 30, White), Rect(100, 5, 30, 12, Red)>>)

\* three sprites 7 and 8 empty columns apart; then 15 empty columns, one of
\* them holding a pixel of alpha 50, closed by a single pixel of alpha 51
Gap7 == File("gap7", 200, 40, Clear,
             <<Rect(10, 5, 30, 30, Red), Rect(47, 5, 30, 30, Blue),
               Rect(85, 5, 30, 30, Red), Rect(122, 20, 1, 1, Faint),
               Rect(130, 20, 1, 1, Dim)>>)

\* 13 x 3 cells of 16 px, each holding a sprite of 121 pixels
Tiles16 == File("tiles16", 208, 48, Clear, Blobs(13, 3, 16, 3, 11, Red))

\* 13 cells of 16 px in one row, each holding a white sprite of 121 pixels
Snow == File("snow", 208, 16, Clear, Blobs(13, 1, 16, 3, 11, White))

\* 13 cells of 16 px in one row, holding sprites of 121 pixels that are
\* (240,240,240) in the even cells and (15,15,15) in the odd ones
Greys == File("greys", 208, 16, Clear,
              Blobs(13, 1, 16, 3, 11, Pale) \o Blobs(6, 1, 32, 19, 11, Soot))

\* 8 rows: every pixel is within 5 pixels of the top or the bottom
Thin == File("thin", 30, 8, Clear, <<Rect(10, 2, 10, 4, Red)>>)

\* one sprite much wider than high
Wide == File("wide", 200, 12, Clear, <<Rect(10, 2, 30, 8, Red)>>)

\* a strip from the left edge to the right edge
Banner == File("banner", 200, 30, Clear, <<Rect(0, 10, 200, 10, Red)>>)

StdFiles ==
    {Dot, Blank64, Hero64, Pair199, Pair200, PairTall, Sheet128, Portrait,
     OpaqueSheet, HalfEdge, TwoSprites, TwoSpritesLeft, SheetGaps, SheetTight,
     Blank256, Blank250, Crowd22, Crowd21, Crowd20, Crowd22Odd, Frame256,
     Sparse, Twins, Sliver, Ghost, Gap7, Banner,
     Tiles16, Snow, Greys, Thin, Wide}

\* 1024 x 1024: two crossing lines (no empty row or column), a solid white
\* picture, and two blocks either side of a transparent stripe
Cross1024 == File("cross1024", 1024, 1024, Clear,
                  <<Rect(0, 7, 1024, 1, Red), Rect(7, 0, 1, 1024, Red)>>)

White1024 == File("white1024", 1024, 1024, White, <<>>)

Stripe1024 == File("stripe1024", 1024, 1024, Clear,
                   <<Rect(5, 5, 395, 1014, Red), Rect(450, 5, 569, 1014, Blue)>>)

\* a 16 x 16 sheet of 64 px cells, one blob to a cell
Sheet1024 == File("sheet1024", 1024, 1024, Clear, Blobs(16, 16, 64, 3, 58, Red))

LargeFiles == {Cross1024, White1024, Stripe1024, Sheet1024}

\* fully transparent images of the sizes detectGrid tells apart, with one
\* sheet of regions and one of grid cells
BlankWidths == {16, 128, 208, 256, 288, 1024, 1040}

BlankHeights == {16, 48, 96, 128, 256}

BlankFiles ==
    {File("blank", w, h, Clear, <<>>) : w \in BlankWidths, h \in BlankHeights}
        \cup {Twins, Crowd21}

NoOptions == [key \in {} |-> 0]

Options == {NoOptions, [minPixelThreshold |-> 100, maxSprites |-> 2]}

(***************************************************************************)
(* The state: the extractor (this), the files at hand, and the locals of   *)
(* the running call of extractFromFile / extractFromImage.  The image is   *)
(* never written, so the state names its file and img is read from it.     *)
(* prev is the result of the call before, kept when that call was given    *)
(* the same file.                                                          *)
(***************************************************************************)
VARIABLES this, uploads, file, analysis, detection, sprites, pc,
          ri, row, col, prev

\* the options object the extractor was constructed with (line 12)
VARIABLE options

\* The state of the App component that calls the extractor (abilities.js,
\* lines 145-153): what processUpload reads and sets.
VARIABLES processing, processingStage, originals, selectedItem,
          activeLibraryTab

app == <<processing, processingStage, originals, selectedItem,
         activeLibraryTab>>

vars == <<options, this, uploads, file, analysis, detection, sprites, pc,
          ri, row, col, prev, app>>

InitWith(files, supplied) ==
    /\ options \in supplied
    /\ this = SpriteExtractor(options)
    /\ uploads = files
    /\ file = Null
    /\ analysis = Null
    /\ detection = Null
    /\ sprites = <<>>
    /\ pc = "idle"
    /\ ri = 1
    /\ row = 0
    /\ col = 0
    /\ prev = Null
    /\ processing = FALSE
    /\ processingStage = ""
    /\ originals = <<>>
    /\ selectedItem = Null
    /\ activeLibraryTab = "originals"

Init == InitWith(StdFiles, Options)

InitLarge == InitWith(LargeFiles, {[minPixelThreshold |-> 100, maxSprites |-> 12]})

\* extractors constructed with a zero, with one option only, with a cell size
ConfigOptions ==
    {NoOptions,
     [minPixelThreshold |-> 0], [maxSprites |-> 0],
     [minPixelThreshold |-> 100], [maxSprites |-> 2],
     [cellSize |-> 16], [cellSize |-> 0],
     [cellSize |-> 128, minPixelThreshold |-> 100, maxSprites |-> 2]}

ConfigFiles == {Dot, Twins, Tiles16, Snow}

InitConfig == InitWith(ConfigFiles, ConfigOptions)

InitBlank == InitWith(BlankFiles, {[minPixelThreshold |-> 100, maxSprites |-> 2]})

\* line 339: const sprites = []
NewSprites_Kept(old) == old

NewSprites(old) == <<>>

\* extractFromFile(f) (lines 23-28): load the file, enter extractFromImage
Call(f) ==
    /\ file' = f
    /\ prev' = IF pc = "done" /\ f = file
               THEN [detection |-> detection, sprites |-> sprites]
               ELSE Null
    /\ analysis' = Null
    /\ detection' = Null
    /\ sprites' = NewSprites(sprites)
    /\ ri' = 1
    /\ row' = 0
    /\ col' = 0
    /\ pc' = "analyze"
    /\ UNCHANGED <<options, this, uploads>>

\* a call of the service on its own
ExtractFromFile ==
    /\ pc \in {"idle", "done"}
    /\ \E f \in uploads : Call(f)
    /\ UNCHANGED app

\* line 337
Analyze ==
    /\ pc = "analyze"
    /\ analysis' = AnalyzeImage(LoadImage(file))
    /\ pc' = "detect"
    /\ UNCHANGED <<options, this, uploads, file, detection, sprites, ri, row, col, prev>>
    /\ UNCHANGED app

\* line 338, and the branch on detection.type
Detect ==
    /\ pc = "detect"
    /\ detection' = DetectSpriteType(LoadImage(file), analysis)
    /\ pc' = detection'.type
    /\ UNCHANGED <<options, this, uploads, file, analysis, sprites, ri, row, col, prev>>
    /\ UNCHANGED app

\* lines 351-358, 380-387, 417-425: getImageData hands back a new buffer
\* holding a copy of the canvas; the tile pushed keeps that buffer and the
\* tiles already in the list keep theirs
PushTile_SharedBuffer(list, tile) ==
    [k \in 1..(Len(list) + 1) |->
        IF k <= Len(list) THEN [list[k] EXCEPT !.imageData = tile.imageData]
        ELSE tile]

PushTile(list, tile) == Append(list, tile)

\* lines 386, 423: index: sprites.length
TileIndex_OneBased(list) == Len(list) + 1

TileIndex(list) == Len(list)

\* lines 341-358
ExtractSingle ==
    /\ pc = "single"
    /\ LET img == LoadImage(file)
       IN  sprites' = PushTile(sprites,
               [imageData |-> DrawImage(img, 0, 0, img.width, img.height, 0, 0,
                                        img.width, img.height),
                index |-> 0,
                type |-> "single"])
    /\ pc' = "return"
    /\ UNCHANGED <<options, this, uploads, file, analysis, detection, ri, row, col, prev>>
    /\ UNCHANGED app

\* lines 372-373: Math.floor((size - region.width) / 2), and for the height
CenterOffset_None(size, extent) == 0

CenterOffset(size, extent) == (size - extent) \div 2

\* line 364: for (const region of detection.regions) ends after the last
LastRegion_Early(k, regions) == k + 1 >= Len(regions)

LastRegion(k, regions) == k = Len(regions)

\* lines 364-389: one pass of the loop over detection.regions
ExtractRegion ==
    /\ pc = "regions"
    /\ LET region == detection.regions[ri]
           size == Max(region.width, region.height)
           offsetX == CenterOffset(size, region.width)
           offsetY == CenterOffset(size, region.height)
       IN  sprites' = PushTile(sprites,
               [imageData |-> DrawImage(LoadImage(file), region.x, region.y,
                                        region.width, region.height,
                                        offsetX, offsetY, size, size),
                index |-> TileIndex(sprites),
                region |-> region])
    /\ ri' = ri + 1
    /\ pc' = IF LastRegion(ri, detection.regions) THEN "return" ELSE "regions"
    /\ UNCHANGED <<options, this, uploads, file, analysis, detection, row, col, prev>>
    /\ UNCHANGED app

\* line 400: sprites.length >= this.maxSprites
CapReached_Over(extractor, list) == Len(list) > extractor.maxSprites

CapReached(extractor, list) == Len(list) >= extractor.maxSprites

\* line 419
CellAccepted_Always(extractor, imageData) == TRUE

CellAccepted(extractor, imageData) == HasContent(extractor, imageData)

\* lines 398-428: one pass of the inner loop that does not break
ExtractGridCell ==
    /\ pc = "grid"
    /\ ~CapReached(this, sprites)
    /\ LET imageData == DrawImage(LoadImage(file), col * detection.cellSize,
                                  row * detection.cellSize, detection.cellSize,
                                  detection.cellSize, 0, 0, detection.cellSize,
                                  detection.cellSize)
       IN  sprites' = IF CellAccepted(this, imageData)
                      THEN PushTile(sprites,
                               [imageData |-> imageData,
                                index |-> TileIndex(sprites),
                                gridPosition |-> [row |-> row, col |-> col]])
                      ELSE sprites
    /\ IF col + 1 < detection.cols
       THEN /\ col' = col + 1
            /\ row' = row
            /\ pc' = "grid"
       ELSE /\ col' = 0
            /\ row' = row + 1
            /\ pc' = IF row + 1 < detection.rows THEN "grid" ELSE "return"
    /\ UNCHANGED <<options, this, uploads, file, analysis, detection, ri, prev>>
    /\ UNCHANGED app

\* line 400: the break leaves the loop over the columns of this row
GridBreak ==
    /\ pc = "grid"
    /\ CapReached(this, sprites)
    /\ col' = 0
    /\ row' = row + 1
    /\ pc' = IF row + 1 < detection.rows THEN "grid" ELSE "return"
    /\ UNCHANGED <<options, this, uploads, file, analysis, detection, sprites, ri, prev>>
    /\ UNCHANGED app

\* lines 431-432
Return ==
    /\ pc = "return"
    /\ pc' = "done"
    /\ UNCHANGED <<options, this, uploads, file, analysis, detection, sprites, ri, row, col, prev>>
    /\ UNCHANGED app

Next ==
    \/ ExtractFromFile
    \/ Analyze
    \/ Detect
    \/ ExtractSingle
    \/ ExtractRegion
    \/ ExtractGridCell
    \/ GridBreak
    \/ Return

Spec == Init /\ [][Next]_vars

\* the steps of a running call
Step ==
    \/ Analyze
    \/ Detect
    \/ ExtractSingle
    \/ ExtractRegion
    \/ ExtractGridCell
    \/ GridBreak
    \/ Return

SpecLarge == InitLarge /\ [][Next]_vars

SpecBlank == InitBlank /\ [][Next]_vars

SpecConfig == InitConfig /\ [][Next]_vars

(***************************************************************************)
(* The upload caller: processUpload of the App component (abilities.js,    *)
(* lines 174-218; processUploadLegacy of the later App is the same code).  *)
(* An original keeps the file name, the tile's pixels and its dimensions;  *)
(* its id and upload time come from the clock and its base64 from the PNG  *)
(* encoder, and are left out.                                              *)
(***************************************************************************)
\* uploads are accepted while the library holds fewer originals than this
MaxOriginals == 2

\* the files uploaded through the App
UploadFiles == {Dot, Twins, Crowd21, File("blank", 256, 16, Clear, <<>>)}

InitUpload == InitWith(UploadFiles, Options)

\* lines 190-200: one original per tile
NewOriginals(name, tiles) ==
    [k \in 1..Len(tiles) |->
        [filename   |-> name,
         imageData  |-> tiles[k].imageData,
         dimensions |-> [width  |-> tiles[k].imageData.width,
                         height |-> tiles[k].imageData.height]]]

\* lines 174-181: setProcessing(true), the stage, and the call of the service
ProcessUpload ==
    /\ pc = "idle"
    /\ ~processing
    /\ Len(originals) < MaxOriginals
    /\ \E f \in uploads : Call(f)
    /\ processing' = TRUE
    /\ processingStage' = "Extracting sprites..."
    /\ UNCHANGED <<originals, selectedItem, activeLibraryTab>>

\* lines 184-188: the service returned no tile
NoSpritesFound ==
    /\ pc = "done"
    /\ processing
    /\ Len(sprites) = 0
    /\ processingStage' = "No sprites found in image"
    /\ processing' = FALSE
    /\ pc' = "idle"
    /\ UNCHANGED <<options, this, uploads, file, analysis, detection, sprites, ri, row, col, prev>>
    /\ UNCHANGED <<originals, selectedItem, activeLibraryTab>>

\* lines 190-216: the tiles become originals, the first one is selected
StoreOriginals ==
    /\ pc = "done"
    /\ processing
    /\ Len(sprites) # 0
    /\ LET newOriginals == NewOriginals(file.name, sprites)
       IN  /\ originals' = originals \o newOriginals
           /\ processingStage' = <<"Uploaded", Len(newOriginals), "sprite(s)">>
           /\ selectedItem' = newOriginals[1]
    /\ activeLibraryTab' = "originals"
    /\ processing' = FALSE
    /\ pc' = "idle"
    /\ UNCHANGED <<options, this, uploads, file, analysis, detection, sprites, ri, row, col, prev>>

NextUpload ==
    \/ ProcessUpload
    \/ Analyze
    \/ Detect
    \/ ExtractSingle
    \/ ExtractRegion
    \/ ExtractGridCell
    \/ GridBreak
    \/ Return
    \/ NoSpritesFound
    \/ StoreOriginals

SpecUpload == InitUpload /\ [][NextUpload]_vars

(***************************************************************************)
(* Properties.  A call has returned when pc = "done"; detectSpriteType has *)
(* just returned when pc names a branch and no step of that branch has run.*)
(***************************************************************************)
\* detectSpriteType has returned
Detected == pc \in {"single", "regions", "grid", "return", "done"}

\* the extraction branch has run to its end
Extracted == pc \in {"return", "done"}

\* detectSpriteType has returned and the extraction branch has not started
JustDetected ==
    /\ pc \in {"single", "regions", "grid"}
    /\ sprites = <<>> /\ ri = 1 /\ row = 0 /\ col = 0

\* the tile list is one tile, index 0, with the buffer of the whole image
WholeImageTile ==
    /\ Len(sprites) = 1
    /\ sprites[1].index = 0
    /\ sprites[1].imageData.width = file.width
    /\ sprites[1].imageData.height = file.height
    /\ sprites[1].imageData = LoadImage(file)

\* C1: for every image with width < 200 and height < 200, whatever its
\* pixels, detectSpriteType returns Single and extractFromImage returns
\* exactly one tile, with index 0, whose pixel data has the dimensions of
\* the whole image.
C1_SmallImageRule ==
    Detected /\ file.width < 200 /\ file.height < 200 =>
        /\ detection = [type |-> "single"]
        /\ Extracted => WholeImageTile

\* C1 witness: a call has returned one tile for an image of width 199 in
\* which the region finder finds two sprites.
C1_Witness ==
    /\ pc = "done"
    /\ file.width = 199 /\ file.height < 200
    /\ Len(FindSpriteRegions(LoadImage(file))) = 2
    /\ Len(sprites) = 1

\* C2: for every image whose 5-pixel border band is at least half opaque
\* (edgeTransparent / totalEdgePixels <= 0.5), of any size, the detection is
\* Single and the result is exactly one tile sized as the whole image,
\* whatever the region finder and the grid detector would say.
C2_OpaqueEdgeRule ==
    Detected /\ 2 * analysis.edgeTransparent <= analysis.totalEdgePixels =>
        /\ detection = [type |-> "single"]
        /\ Extracted => WholeImageTile

\* C2 witness: a call has returned on an image that is not small, whose
\* border band is exactly half transparent and in which the region finder
\* finds a region.
C2_Witness ==
    /\ pc = "done"
    /\ ~IsSmallImage(file.width, file.height)
    /\ 2 * analysis.edgeTransparent = analysis.totalEdgePixels
    /\ analysis.hasTransparency
    /\ Len(FindSpriteRegions(LoadImage(file))) > 0
    /\ Len(sprites) = 1

\* C3: detectSpriteType returns Regions exactly when the image is not small
\* (width >= 200 or height >= 200), hasTransparency and hasTransparentEdges
\* hold and the region finder returns 1..20 regions; Grid exactly when the
\* first three hold, the region finder returns 0 or more than 20 regions and
\* detectGrid(width, height) is not null; Single in every other case.
C3_PriorityChain ==
    JustDetected =>
        LET large == file.width >= 200 \/ file.height >= 200
            transparent ==
                analysis.hasTransparency /\ analysis.hasTransparentEdges
            found == Len(FindSpriteRegions(LoadImage(file)))
            isRegions == large /\ transparent /\ found >= 1 /\ found <= 20
            isGrid == /\ large /\ transparent
                      /\ (found = 0 \/ found > 20)
                      /\ DetectGrid(file.width, file.height) # Null
        IN  /\ detection.type = "regions" <=> isRegions
            /\ detection.type = "grid" <=> isGrid
            /\ detection.type = "single" <=> ~isRegions /\ ~isGrid
            /\ detection.type = "regions" =>
                   detection.regions = FindSpriteRegions(LoadImage(file))
            /\ detection.type = "grid" =>
                   [cols |-> detection.cols, rows |-> detection.rows,
                    cellSize |-> detection.cellSize]
                       = DetectGrid(file.width, file.height)

\* C3 witness: Regions has just been returned for an image whose size
\* detectGrid accepts (1..20 regions take priority over the grid).
C3_Witness ==
    /\ JustDetected
    /\ detection.type = "regions"
    /\ DetectGrid(file.width, file.height) # Null

\* C4 as stated: for every image (from 1 x 1 up) and every branch, every
\* tile returned by extractFromImage has width > 10 and height > 10.
C4_EveryTileLarge ==
    \A k \in 1..Len(sprites) :
        sprites[k].imageData.width > 10 /\ sprites[k].imageData.height > 10

\* C4 amended: every region the classifier returns, hence the source region
\* of every region tile, has width > 10 and height > 10, and the tile is the
\* square of side max(width, height); every grid tile is a square of side
\* cellSize >= 16; the tile of a Single detection has the dimensions of the
\* image itself, whatever they are.
C4_TileSizes ==
    Detected =>
        /\ detection.type = "regions" =>
               \A j \in 1..Len(detection.regions) :
                   detection.regions[j].width > 10
                       /\ detection.regions[j].height > 10
        /\ \A k \in 1..Len(sprites) :
               LET tile == sprites[k]
                   side == IF detection.type = "regions"
                           THEN Max(tile.region.width, tile.region.height)
                           ELSE detection.cellSize
               IN  IF detection.type = "single"
                   THEN /\ tile.imageData.width = file.width
                        /\ tile.imageData.height = file.height
                   ELSE /\ (detection.type = "regions" =>
                               tile.region = detection.regions[k])
                        /\ side > 10
                        /\ tile.imageData.width = side
                        /\ tile.imageData.height = side

\* C4 witness: a call has returned region tiles, one of them cut from a
\* region that is wider than it is high.
C4_Witness ==
    /\ pc = "done"
    /\ detection.type = "regions"
    /\ \E k \in 1..Len(sprites) :
           /\ sprites[k].region.height < sprites[k].region.width
           /\ sprites[k].imageData.height = sprites[k].region.width

\* C5 as stated: for every image and every branch, every tile returned by
\* extractFromImage passes hasContent (visiblePixels > minPixelThreshold and
\* coloredPixels > 50).
C5_EveryTilePasses ==
    \A k \in 1..Len(sprites) : HasContent(this, sprites[k].imageData)

\* C5 amended: every grid tile passes hasContent; every region tile has
\* more than 100 visible pixels (the region finder's own test), and may fail
\* hasContent; the tile of a Single detection is not tested at all.
C5_TileContent ==
    Detected =>
        \A k \in 1..Len(sprites) :
            /\ detection.type = "grid" =>
                   HasContent(this, sprites[k].imageData)
            /\ detection.type = "regions" =>
                   VisiblePixels(sprites[k].imageData) > 100

\* C5 witness: grid extraction has accepted a cell and rejected another.
C5_Witness ==
    /\ pc = "grid"
    /\ Len(sprites) >= 1
    /\ row * detection.cols + col > Len(sprites)
    /\ HasContent(this, sprites[1].imageData)

\* C6 as stated: a 1024 x 1024 image is never classified as Grid, whatever
\* its pixels; detectGrid(1024, 1024) accepts no grid and the detection is
\* Single or Regions.
C6_NeverGrid ==
    Detected /\ file.width = 1024 /\ file.height = 1024 =>
        /\ DetectGrid(1024, 1024) = Null
        /\ detection.type \in {"single", "regions"}

\* C6 amended: detectGrid(1024, 1024) accepts the 8 x 8 grid of 128 px cells
\* (64 cells, the ceiling itself), so a 1024 x 1024 image with transparency
\* and transparent edges that is not classified Regions is classified
\* Grid(cols = 8, rows = 8, cellSize = 128); no 1024 x 1024 image is ever
\* classified as a grid of more than 64 cells (16 x 16 cells of 64 px).
C6_GridOf64Cells ==
    Detected /\ file.width = 1024 /\ file.height = 1024 =>
        /\ DetectGrid(1024, 1024) = [cols |-> 8, rows |-> 8, cellSize |-> 128]
        /\ detection.type = "grid" =>
               /\ detection.cols * detection.rows <= 64
               /\ detection = [type |-> "grid", cols |-> 8, rows |-> 8,
                               cellSize |-> 128]
        /\ analysis.hasTransparency /\ analysis.hasTransparentEdges
               /\ detection.type # "regions" => detection.type = "grid"
        /\ ~(analysis.hasTransparency /\ analysis.hasTransparentEdges) =>
               detection.type = "single"

\* C6 witness: a 1024 x 1024 sheet with one blob in each of its 16 x 16
\* cells of 64 px has just been classified as a grid.
C6_Witness ==
    /\ JustDetected
    /\ file.width = 1024 /\ file.height = 1024
    /\ Len(file.rects) = 16 * 16
    /\ detection.type = "grid"

\* the sheet of C7: 256 x 128, transparent but for one opaque coloured blob
\* inside each 64 px cell of its 4 x 2 grid, each blob of more than
\* DefaultMinPixelThreshold pixels
IsSheet4x2(f) ==
    /\ f.width = 256 /\ f.height = 128 /\ f.bg = Clear
    /\ Len(f.rects) = 8
    /\ \A k \in 1..8 :
           LET r == f.rects[k]
               cx == ((k - 1) % 4) * 64
               cy == ((k - 1) \div 4) * 64
           IN  /\ r.x >= cx /\ r.x + r.width <= cx + 64
               /\ r.y >= cy /\ r.y + r.height <= cy + 64
               /\ r.px.a = 255 /\ IsColored(r.px)
               /\ r.width * r.height > DefaultMinPixelThreshold

IsTwoSprites(f) ==
    /\ f.bg = Clear
    /\ Len(f.rects) = 2
    /\ \A k \in 1..2 :
           LET r == f.rects[k]
           IN  /\ r.px.a = 255
               /\ r.width > 10 /\ r.height > 10
               /\ r.x >= 0 /\ r.x + r.width <= f.width
               /\ r.y >= 0 /\ r.y + r.height <= f.height
    /\ f.rects[1].x + f.rects[1].width + minGapSize <= f.rects[2].x

\* the bounding box r widened by 2 pixels on each side and cut to the image
PaddedBox(f, r) ==
    LET left == Max(0, r.x - 2)
        top == Max(0, r.y - 2)
        right == Min(f.width - 1, r.x + r.width - 1 + 2)
        bottom == Min(f.height - 1, r.y + r.height - 1 + 2)
    IN  [x |-> left, y |-> top,
         width |-> right - left + 1, height |-> bottom - top + 1]

\* C8: for an image with transparent background and edges that holds two
\* solid sprites separated by at least 8 transparent columns,
\* findSpriteRegions returns exactly 2 regions, one per sprite, each the
\* sprite's tight bounding box widened by 2 pixels on each side and clamped
\* to the image.
C8_RegionRoundTrip ==
    JustDetected /\ IsTwoSprites(file)
        /\ analysis.hasTransparency /\ analysis.hasTransparentEdges =>
            FindSpriteRegions(LoadImage(file))
                = <<PaddedBox(file, file.rects[1]), PaddedBox(file, file.rects[2])>>

\* C9: a candidate cell between the gaps that holds at most 100 pixels of
\* alpha > 50 never yields a region of findSpriteRegions nor a tile, even
\* when its trimmed and padded box would be larger than 10 x 10.
C9_SparseCellsRejected ==
    JustDetected \/ Extracted =>
        LET img == LoadImage(file)
            cells == CandidateCells(
                         Boundaries(FindGaps(img, "vertical"), img.width),
                         Boundaries(FindGaps(img, "horizontal"), img.height))
            regions == FindSpriteRegions(img)
        IN  \A c \in 1..Len(cells) :
                VisibleCount(img, cells[c]) <= 100 =>
                    /\ \A j \in 1..Len(regions) :
                           regions[j] # TrimRegion(img, cells[c])
                    /\ \A k \in 1..Len(sprites) :
                           "region" \in DOMAIN sprites[k] =>
                               sprites[k].region # TrimRegion(img, cells[c])

\* C9 witness: a call has returned region tiles for an image with a cell of
\* five stray visible pixels whose trimmed box is larger than 10 x 10, and a
\* cell of exactly 100 visible pixels.
C9_Witness ==
    /\ pc = "done"
    /\ detection.type = "regions"
    /\ LET img == LoadImage(file)
           cells == CandidateCells(
                        Boundaries(FindGaps(img, "vertical"), img.width),
                        Boundaries(FindGaps(img, "horizontal"), img.height))
       IN  /\ \E c \in 1..Len(cells) :
                  /\ VisibleCount(img, cells[c]) = 5
                  /\ LargeEnough(TrimRegion(img, cells[c]))
           /\ \E c \in 1..Len(cells) : VisibleCount(img, cells[c]) = 100
           /\ Len(sprites) < Len(cells)

\* C10: two successive calls of one extractor on the same image return the
\* same detection and the same tile list (count, order, indices, regions,
\* grid positions and pixel data); every call starts from an empty tile
\* list, whatever the call before returned.
C10_Determinism ==
    /\ pc = "done" /\ prev # Null =>
           /\ prev.detection = detection
           /\ prev.sprites = sprites
    /\ pc \in {"analyze", "detect"} => sprites = <<>>

\* C10 witness: the second of two calls on the same image has returned, with
\* two tiles or more.
C10_Witness ==
    /\ pc = "done"
    /\ prev # Null
    /\ Len(sprites) >= 2
    /\ \A k \in 1..Len(sprites) : sprites[k].imageData.width < 20

\* C11: detectGrid(width, height) returns the largest size s of 128, 96, 64,
\* 48, 32, 16 with width % s = 0, height % s = 0, cols = width / s >= 2,
\* rows = height / s >= 1 and 2 <= cols * rows <= 64, and null when no size
\* qualifies; a result has cols * cellSize = width, rows * cellSize = height.
C11_DetectGrid ==
    JustDetected =>
        LET w == file.width
            h == file.height
            ok == {s \in {128, 96, 64, 48, 32, 16} :
                      /\ w % s = 0 /\ h % s = 0
                      /\ w \div s >= 2 /\ h \div s >= 1
                      /\ (w \div s) * (h \div s) >= 2
                      /\ (w \div s) * (h \div s) <= 64}
            grid == DetectGrid(w, h)
        IN  /\ grid = Null <=> ok = {}
            /\ grid # Null =>
                   /\ grid.cellSize \in ok
                   /\ \A s \in ok : s <= grid.cellSize
                   /\ grid.cols * grid.cellSize = w
                   /\ grid.rows * grid.cellSize = h
                   /\ grid.cols >= 2 /\ grid.rows >= 1
                   /\ grid.cols * grid.rows >= 2 /\ grid.cols * grid.rows <= 64
            /\ detection.type = "grid" =>
                   grid = [cols |-> detection.cols, rows |-> detection.rows,
                           cellSize |-> detection.cellSize]

\* C11 witness: a grid of 64 px cells has just been detected for an image
\* whose sides 128 divides too (one column of 128 px cells is not accepted).
C11_Witness ==
    /\ JustDetected
    /\ detection.type = "grid"
    /\ detection.cellSize = 64
    /\ file.width % 128 = 0 /\ file.height % 128 = 0


\* C12: zero-tile fallback.  Whenever extractFromFile returns an empty tile
\* list, processUpload falls back to the whole image as one sprite, so the
\* upload still adds one original.
C12_ZeroTileFallback ==
    [][(pc = "done" /\ processing /\ sprites = <<>> /\ pc' = "idle")
          => Len(originals') = Len(originals) + 1]_vars


\* every pixel of the file has alpha 0
FullyTransparent(f) ==
    /\ f.bg.a = 0
    /\ \A k \in 1..Len(f.rects) : f.rects[k].px.a = 0

\* C13 as stated: for a fully transparent image that is not small,
\* detection is Regions (with an empty list) or Grid, and extraction yields
\* zero tiles.
C13_NoContentNoTile ==
    Detected /\ FullyTransparent(file) /\ ~(file.width < 200 /\ file.height < 200) =>
        /\ detection.type \in {"regions", "grid"}
        /\ detection.type = "regions" => detection.regions = <<>>
        /\ Extracted => sprites = <<>>

\* C13 amended: for a fully transparent image that is not small, detection
\* is never Regions; it is Grid exactly when detectGrid accepts the image's
\* dimensions, and then extraction yields zero tiles; otherwise it is Single
\* and extraction yields one tile, the whole image, with no visible pixel.
C13_NoContentOutcome ==
    Detected /\ FullyTransparent(file) /\ ~(file.width < 200 /\ file.height < 200) =>
        /\ detection.type # "regions"
        /\ detection.type = "grid" <=> DetectGrid(file.width, file.height) # Null
        /\ detection.type = "single" <=> DetectGrid(file.width, file.height) = Null
        /\ Extracted /\ detection.type = "grid" => sprites = <<>>
        /\ Extracted /\ detection.type = "single" =>
               /\ WholeImageTile
               /\ VisiblePixels(sprites[1].imageData) = 0

C13_Witness ==
    /\ pc = "done"
    /\ FullyTransparent(file)
    /\ file.width = 1040 /\ file.height = 16
    /\ detection.type = "single"
    /\ Len(sprites) = 1


\* the pixels a tile was cut from: the whole image, its region (centred on
\* a square canvas) or its grid cell
SourceCrop(f, d, tile) ==
    LET img == LoadImage(f)
    IN  IF d.type = "single"
        THEN DrawImage(img, 0, 0, img.width, img.height, 0, 0, img.width, img.height)
        ELSE IF d.type = "regions"
        THEN LET region == tile.region
                 size == Max(region.width, region.height)
             IN  DrawImage(img, region.x, region.y, region.width, region.height,
                           (size - region.width) \div 2,
                           (size - region.height) \div 2, size, size)
        ELSE DrawImage(img, tile.gridPosition.col * d.cellSize,
                       tile.gridPosition.row * d.cellSize, d.cellSize,
                       d.cellSize, 0, 0, d.cellSize, d.cellSize)

\* C14: source immutability and no aliasing.  No step of a call (analysis,
\* detection, region finding, extraction) changes the source image, and
\* every tile's pixel data is a copy of its own: a step that cuts a further
\* tile (grid tiles all pass through the one scratch canvas) leaves the
\* tiles already in the list as they were, each still holding exactly the
\* pixels of the source it was cut from.
C14_SourceAndTilesUntouched ==
    [][pc' # "analyze" =>
          /\ file' = file /\ uploads' = uploads
          /\ Len(sprites') >= Len(sprites)
          /\ \A k \in 1..Len(sprites) : sprites'[k] = sprites[k]
          /\ \A k \in 1..Len(sprites') :
                 sprites'[k].imageData = SourceCrop(file', detection', sprites'[k])]_vars

C14_Witness ==
    /\ pc = "done"
    /\ file = Crowd21
    /\ detection.type = "grid"
    /\ Len(sprites) = 2
    /\ sprites[1].imageData # sprites[2].imageData
    /\ sprites[1].imageData = SourceCrop(file, detection, sprites[1])


\* findSpriteRegions, and with it findGaps, is called on the image
GapsSearched ==
    /\ ~IsSmallImage(file.width, file.height)
    /\ analysis.hasTransparency /\ analysis.hasTransparentEdges

\* the maximal runs <<first, last>> of members of `empty` within 0..n-1
\* that are at least 8 long
LongRuns(empty, n) ==
    LET firsts == {a \in empty : (a - 1) \notin empty}
        lasts == {b \in empty : (b + 1) \notin empty}
        LastOf(a) == CHOOSE b \in lasts : b >= a /\ \A c \in lasts : c >= a => b <= c
    IN  {r \in {<<a, LastOf(a)>> : a \in firsts} : r[2] - r[1] + 1 >= 8}

EmptyRows(img) == {y \in 0..(img.height - 1) : RowEmpty(img, y)}

EmptyCols(img) == {x \in 0..(img.width - 1) : ColEmpty(img, x)}

\* C15: gap completeness.  Every maximal run of at least 8 empty rows is
\* recorded by findGaps as exactly one horizontal gap, at the run's midpoint
\* floor((first + last + 1) / 2), runs that start at row 0 or end at the
\* last row included; the same for columns and vertical gaps.
C15_GapCompleteness ==
    JustDetected /\ GapsSearched =>
        LET img == LoadImage(file)
            Midpoints(runs) == Ascending({(r[1] + r[2] + 1) \div 2 : r \in runs})
        IN  /\ FindGaps(img, "horizontal")
                   = Midpoints(LongRuns(EmptyRows(img), img.height))
            /\ FindGaps(img, "vertical")
                   = Midpoints(LongRuns(EmptyCols(img), img.width))


\* C16: gap minimum length.  Every value returned by findGaps lies
\* strictly inside a run of at least 8 consecutive empty rows (columns for
\* vertical gaps), a row or column being empty iff all its pixels have
\* alpha <= 50: a run of 7 or fewer never gives a gap, and one pixel of
\* alpha 51 makes its row and its column non-empty.
C16_GapMinimumLength ==
    JustDetected /\ GapsSearched =>
        LET img == LoadImage(file)
            rows == {y \in 0..(img.height - 1) :
                        \A x \in 0..(img.width - 1) : At(img, x, y).a <= 50}
            cols == {x \in 0..(img.width - 1) :
                        \A y \in 0..(img.height - 1) : At(img, x, y).a <= 50}
            Inside(g, runs) == \E r \in runs : r[1] < g /\ g < r[2]
            horizontalGaps == FindGaps(img, "horizontal")
            verticalGaps == FindGaps(img, "vertical")
        IN  /\ \A k \in 1..Len(horizontalGaps) :
                   Inside(horizontalGaps[k], LongRuns(rows, img.height))
            /\ \A k \in 1..Len(verticalGaps) :
                   Inside(verticalGaps[k], LongRuns(cols, img.width))

\* 7 empty columns give no gap, 8 give one, and the pixel of alpha 51 at
\* column 130 closes the run 115..129 that the pixel of alpha 50 left open
C16_Witness ==
    /\ JustDetected
    /\ file = Gap7
    /\ FindGaps(LoadImage(file), "vertical") = <<5, 81, 122>>
    /\ FindGaps(LoadImage(file), "horizontal") = <<>>


\* the candidate cells of findSpriteRegions that trimRegion is called on
\* (lines 208-212)
TrimmedCells(img) ==
    LET cells == CandidateCells(
                     Boundaries(FindGaps(img, "vertical"), img.width),
                     Boundaries(FindGaps(img, "horizontal"), img.height))
    IN  {TrimRegion(img, cells[c]) :
            c \in {j \in 1..Len(cells) : RegionHasContent(img, cells[j])}}

\* C17: trimmed regions stay inside the image.  Every region returned by
\* trimRegion, and so by findSpriteRegions, has x >= 0, y >= 0,
\* x + width <= imageWidth and y + height <= imageHeight, wherever the
\* content lies.
C17_RegionsInsideImage ==
    JustDetected /\ GapsSearched =>
        LET img == LoadImage(file)
            regions == FindSpriteRegions(img)
            InsideImage(r) ==
                /\ r.x >= 0 /\ r.y >= 0
                /\ r.x + r.width <= img.width
                /\ r.y + r.height <= img.height
        IN  /\ \A k \in 1..Len(regions) : InsideImage(regions[k])
            /\ \A r \in TrimmedCells(img) : r # Null => InsideImage(r)


\* C18: the trimmed region is the padded tight bounding box.  For a cell
\* whose pixels of alpha > 50 have bounding box [minX..maxX] x [minY..maxY],
\* trimRegion returns the rectangle of columns max(0, minX - 2) ..
\* min(imageWidth - 1, maxX + 2) and rows max(0, minY - 2) ..
\* min(imageHeight - 1, maxY + 2): never more than 2 pixels of padding on
\* any side.
C18_PaddedTightBox ==
    JustDetected /\ GapsSearched =>
        LET img == LoadImage(file)
            cells == CandidateCells(
                         Boundaries(FindGaps(img, "vertical"), img.width),
                         Boundaries(FindGaps(img, "horizontal"), img.height))
            Seen(cell) ==
                {p \in (cell.x..(cell.x + cell.width - 1))
                          \X (cell.y..(cell.y + cell.height - 1)) :
                    At(img, p[1], p[2]).a > 50}
            Box(seen) ==
                LET minX == CHOOSE a \in {p[1] : p \in seen} : \A p \in seen : a <= p[1]
                    maxX == CHOOSE a \in {p[1] : p \in seen} : \A p \in seen : a >= p[1]
                    minY == CHOOSE a \in {p[2] : p \in seen} : \A p \in seen : a <= p[2]
                    maxY == CHOOSE a \in {p[2] : p \in seen} : \A p \in seen : a >= p[2]
                IN  PaddedBox(file, [x |-> minX, y |-> minY,
                                     width |-> maxX - minX + 1,
                                     height |-> maxY - minY + 1])
        IN  \A c \in 1..Len(cells) :
                RegionHasContent(img, cells[c]) =>
                    TrimRegion(img, cells[c]) = Box(Seen(cells[c]))


\* C19: output order and indices.  In every tile list of extractFromImage
\* the k-th tile (counting from 0) has index k, so the indices are 0..n-1
\* without gaps or repeats; the grid positions of grid tiles are strictly
\* increasing in row-major order, a rejected cell consuming no index.
C19_OrderAndIndices ==
    Detected =>
        /\ \A k \in 1..Len(sprites) : sprites[k].index = k - 1
        /\ detection.type = "grid" =>
               \A j, k \in 1..Len(sprites) :
                   j < k =>
                       LET a == sprites[j].gridPosition
                           b == sprites[k].gridPosition
                       IN  a.row < b.row \/ (a.row = b.row /\ a.col < b.col)

\* two tiles of a grid with rejected cells between them
C19_Witness ==
    /\ pc = "done"
    /\ file = Crowd21
    /\ detection.type = "grid"
    /\ Len(sprites) = 2
    /\ sprites[1].gridPosition.row = 0 /\ sprites[2].gridPosition.row = 0
    /\ sprites[2].gridPosition.col > sprites[1].gridPosition.col + 1
    /\ sprites[2].index = 1


\* the cells of the grid d over file f that pass the Content Test, in
\* row-major order
PassingCells(extractor, f, d) ==
    LET img == LoadImage(f)
        Cell(n) == [row |-> n \div d.cols, col |-> n % d.cols]
        Passes(n) ==
            HasContent(extractor,
                       DrawImage(img, Cell(n).col * d.cellSize,
                                 Cell(n).row * d.cellSize, d.cellSize,
                                 d.cellSize, 0, 0, d.cellSize, d.cellSize))
        passing == Ascending({n \in 0..(d.cols * d.rows - 1) : Passes(n)})
    IN  [k \in 1..Len(passing) |-> Cell(passing[k])]

\* C20: grid cap on output.  Grid extraction never holds more than
\* maxSprites tiles, and the tiles it returns are exactly the first
\* maxSprites cells that pass the Content Test in row-major order (all of
\* them when fewer pass): no cell of a later row is added once the cap was
\* reached in an earlier row.
C20_GridCap ==
    Detected /\ detection.type = "grid" =>
        /\ Len(sprites) <= this.maxSprites
        /\ Extracted =>
               LET passing == PassingCells(this, file, detection)
               IN  [k \in 1..Len(sprites) |-> sprites[k].gridPosition]
                       = SubSeq(passing, 1, Min(this.maxSprites, Len(passing)))

\* the cap of 2 is reached in the first of 3 rows, and the later rows
\* hold cells that pass
C20_Witness ==
    /\ pc = "done"
    /\ file = Tiles16
    /\ detection.type = "grid" /\ detection.rows = 3
    /\ Len(sprites) = this.maxSprites
    /\ sprites[Len(sprites)].gridPosition.row = 0
    /\ LET passing == PassingCells(this, file, detection)
       IN  /\ Len(passing) > this.maxSprites
           /\ passing[Len(passing)].row > 0


\* C21: grid cell filtering.  While the cap is not reached, the cell
\* (row, col) becomes a tile if and only if its cellSize x cellSize crop at
\* (col * cellSize, row * cellSize) has more than minPixelThreshold visible
\* pixels and more than 50 colored pixels; grid cells are not trimmed, so a
\* grid tile is exactly cellSize x cellSize.
C21_GridCellFilter ==
    [][pc = "grid" /\ Len(sprites) < this.maxSprites =>
          LET size == detection.cellSize
              crop == DrawImage(LoadImage(file), col * size, row * size,
                                size, size, 0, 0, size, size)
              passes == /\ VisiblePixels(crop) > this.minPixelThreshold
                        /\ ColoredPixels(crop) > 50
          IN  /\ passes =>
                     /\ Len(sprites') = Len(sprites) + 1
                     /\ SubSeq(sprites', 1, Len(sprites)) = sprites
                     /\ sprites'[Len(sprites')].gridPosition = [row |-> row, col |-> col]
                     /\ sprites'[Len(sprites')].imageData = crop
                     /\ crop.width = size /\ crop.height = size
                     /\ Len(crop.data) = size * size
              /\ ~passes => sprites' = sprites]_vars

\* the first cell of the sheet was accepted and the second rejected
C21_Witness ==
    /\ pc = "grid"
    /\ file = Crowd21
    /\ row = 0 /\ col = 2
    /\ Len(sprites) = 1
    /\ sprites[1].gridPosition = [row |-> 0, col |-> 0]
    /\ sprites[1].imageData.width = 16 /\ sprites[1].imageData.height = 16


\* C22: the Content Test.  hasContent(buffer) is true iff visiblePixels >
\* minPixelThreshold and coloredPixels > 50, a pixel being visible iff its
\* alpha > 50 and a visible pixel colored iff it is neither within 15 of
\* pure white on all channels (r, g, b >= 240) nor within 15 of pure black
\* on all channels (r, g, b <= 15): a buffer whose visible pixels are all
\* (240,240,240), or all (15,15,15), fails the test.
C22_ContentTest ==
    JustDetected /\ detection.type = "grid" =>
        LET size == detection.cellSize
            img == LoadImage(file)
            Crop(n) == DrawImage(img, (n % detection.cols) * size,
                                 (n \div detection.cols) * size,
                                 size, size, 0, 0, size, size)
            NearWhite(px) == px.r >= 240 /\ px.g >= 240 /\ px.b >= 240
            NearBlack(px) == px.r <= 15 /\ px.g <= 15 /\ px.b <= 15
            visible(buffer) == {i \in 1..Len(buffer.data) : buffer.data[i].a > 50}
            colored(buffer) == {i \in visible(buffer) :
                                   /\ ~NearWhite(buffer.data[i])
                                   /\ ~NearBlack(buffer.data[i])}
        IN  \A n \in 0..(detection.cols * detection.rows - 1) :
                HasContent(this, Crop(n))
                    <=> /\ Cardinality(visible(Crop(n))) > this.minPixelThreshold
                        /\ Cardinality(colored(Crop(n))) > 50


\* C23: statistics.  analyzeImage counts a pixel as transparent iff its
\* alpha < 128 and as an edge pixel iff it lies within 5 pixels of one of
\* the four sides; hasTransparency holds iff transparent / total > 0.05 and
\* hasTransparentEdges iff edgeTransparent / edge > 0.5, both strictly.  The
\* edge count is positive for every image, and when width <= 10 or
\* height <= 10 every pixel is an edge pixel, so the two ratios are equal.
C23_Statistics ==
    pc = "detect" =>
        LET img == LoadImage(file)
            w == img.width
            h == img.height
            NearSide(i) ==
                LET x == (i - 1) % w
                    y == (i - 1) \div w
                IN  x <= 4 \/ w - 1 - x <= 4 \/ y <= 4 \/ h - 1 - y <= 4
            t == Cardinality({i \in 1..(w * h) : img.data[i].a < 128})
            e == Cardinality({i \in 1..(w * h) : img.data[i].a < 128 /\ NearSide(i)})
            m == w * h - Max(0, w - 10) * Max(0, h - 10)
        IN  /\ analysis.totalPixels = w * h
            /\ analysis.transparentPixels = t
            /\ analysis.totalEdgePixels = m
            /\ analysis.edgeTransparent = e
            /\ m > 0
            /\ analysis.hasTransparency <=> 20 * t > w * h
            /\ analysis.hasTransparentEdges <=> 2 * e > m
            /\ w <= 10 \/ h <= 10 =>
                   /\ m = w * h /\ e = t
                   /\ analysis.edgeTransparent * analysis.totalPixels
                          = analysis.transparentPixels * analysis.totalEdgePixels

\* an image of 8 rows: all 240 pixels are edge pixels, 200 transparent
C23_Witness ==
    /\ pc = "detect"
    /\ file = Thin
    /\ analysis.totalEdgePixels = 240 /\ analysis.totalPixels = 240
    /\ analysis.edgeTransparent = 200 /\ analysis.transparentPixels = 200
    /\ analysis.hasTransparency /\ analysis.hasTransparentEdges


\* what findSpriteRegions does with its candidate cells, stated on the
\* pixels: cells inside the buffer, null from trimRegion exactly for the
\* cells without a visible pixel, and the regions returned being the
\* trimmed cells of more than 100 visible pixels whose trimmed width and
\* height both exceed 10, in the order of the cells
DegenerateCellsDropped ==
    JustDetected /\ GapsSearched =>
        LET img == LoadImage(file)
            cells == CandidateCells(
                         Boundaries(FindGaps(img, "vertical"), img.width),
                         Boundaries(FindGaps(img, "horizontal"), img.height))
            Seen(c) == {p \in (c.x..(c.x + c.width - 1)) \X (c.y..(c.y + c.height - 1)) :
                           At(img, p[1], p[2]).a > 50}
            Kept(k) ==
                /\ Cardinality(Seen(cells[k])) > 100
                /\ TrimRegion(img, cells[k]).width > 10
                /\ TrimRegion(img, cells[k]).height > 10
            kept == Ascending({k \in 1..Len(cells) : Kept(k)})
            regions == FindSpriteRegions(img)
        IN  /\ \A k \in 1..Len(cells) :
                   /\ cells[k].x >= 0 /\ cells[k].y >= 0
                   /\ cells[k].x + cells[k].width <= img.width
                   /\ cells[k].y + cells[k].height <= img.height
                   /\ (cells[k].y + cells[k].height - 1) * img.width
                          + cells[k].x + cells[k].width - 1 < Len(img.data)
                   /\ TrimRegion(img, cells[k]) = Null <=> Seen(cells[k]) = {}
            /\ Len(cells) > 1 =>
                   regions = [j \in 1..Len(kept) |-> TrimRegion(img, cells[kept[j]])]
            /\ Len(cells) = 1 => regions = <<>>

\* a call of extractFromImage is under way
Running == pc \in {"analyze", "detect", "single", "regions", "grid", "return"}

\* how far the call is from its return: the statements still ahead, and
\* within a loop the passes still ahead
Phase ==
    CASE pc = "analyze" -> 4
      [] pc = "detect" -> 3
      [] pc \in {"single", "regions", "grid"} -> 2
      [] pc = "return" -> 1
      [] OTHER -> 0

StepsLeft ==
    CASE pc = "regions" -> Len(detection.regions) - ri + 1
      [] pc = "grid" -> detection.cols * detection.rows
                           - (row * detection.cols + col)
      [] OTHER -> 0

\* the loop under way stands at a region of the list, or at a cell of the
\* grid: its next pass has what it reads
LoopInRange ==
    /\ pc = "regions" => ri \in 1..Len(detection.regions)
    /\ pc = "grid" => /\ row \in 0..(detection.rows - 1)
                      /\ col \in 0..(detection.cols - 1)

\* C24: degenerate geometry is not an error.  trimRegion returns null for
\* a cell with no pixel of alpha > 50; findSpriteRegions drops such a cell,
\* and any cell whose trimmed width or height is <= 10, silently, reading
\* no pixel outside the buffer; and every call of extractFromImage comes to
\* its end and returns a list: a running call always has a step to take,
\* and each step brings it nearer to its return.
C24_DegenerateGeometry ==
    /\ []DegenerateCellsDropped
    /\ [](Running => StepsLeft >= 0 /\ LoopInRange)
    /\ [][Running =>
             \/ Phase' < Phase
             \/ Phase' = Phase /\ StepsLeft' < StepsLeft /\ StepsLeft' >= 0]_vars
    /\ [](pc = "done" => Len(sprites) >= 0)

\* a cell with no visible pixel, a cell holding a sliver 4 pixels wide that
\* is dropped after trimming, and one region left
C24_Witness ==
    /\ pc = "done"
    /\ file = Sliver
    /\ detection.type = "regions" /\ Len(detection.regions) = 1
    /\ Len(sprites) = 1
    /\ LET img == LoadImage(file)
           cells == CandidateCells(
                        Boundaries(FindGaps(img, "vertical"), img.width),
                        Boundaries(FindGaps(img, "horizontal"), img.height))
       IN  /\ Len(cells) = 3
           /\ TrimRegion(img, cells[1]) = Null
           /\ RegionHasContent(img, cells[3])
           /\ TrimRegion(img, cells[3]).width <= 10


\* C25: candidate cells partition the image.  The boundary lists
\* [0, vertical gaps..., width] and [0, horizontal gaps..., height] are
\* strictly increasing, so every candidate cell has positive width and
\* height; the cells are the full cross product of the x-bands and the
\* y-bands, and together they cover every pixel of the image exactly once
\* (they lie inside the image, no two of them meet, and their areas add up
\* to width * height).
C25_CellsPartitionImage ==
    JustDetected /\ GapsSearched =>
        LET img == LoadImage(file)
            xBoundaries == Boundaries(FindGaps(img, "vertical"), img.width)
            yBoundaries == Boundaries(FindGaps(img, "horizontal"), img.height)
            cells == CandidateCells(xBoundaries, yBoundaries)
            Increasing(b) == \A k \in 1..(Len(b) - 1) : b[k] < b[k + 1]
            Apart(a, b) ==
                \/ a.x + a.width <= b.x \/ b.x + b.width <= a.x
                \/ a.y + a.height <= b.y \/ b.y + b.height <= a.y
            area == Sum([k \in 1..Len(cells) |-> cells[k].width * cells[k].height],
                        1, Len(cells))
        IN  /\ xBoundaries[1] = 0 /\ xBoundaries[Len(xBoundaries)] = img.width
            /\ yBoundaries[1] = 0 /\ yBoundaries[Len(yBoundaries)] = img.height
            /\ Increasing(xBoundaries) /\ Increasing(yBoundaries)
            /\ Len(cells) = (Len(xBoundaries) - 1) * (Len(yBoundaries) - 1)
            /\ \A xi \in 1..(Len(xBoundaries) - 1), yi \in 1..(Len(yBoundaries) - 1) :
                   \E k \in 1..Len(cells) :
                       cells[k] = [x |-> xBoundaries[xi], y |-> yBoundaries[yi],
                                   width |-> xBoundaries[xi + 1] - xBoundaries[xi],
                                   height |-> yBoundaries[yi + 1] - yBoundaries[yi]]
            /\ \A k \in 1..Len(cells) :
                   /\ cells[k].width > 0 /\ cells[k].height > 0
                   /\ cells[k].x >= 0 /\ cells[k].x + cells[k].width <= img.width
                   /\ cells[k].y >= 0 /\ cells[k].y + cells[k].height <= img.height
            /\ \A j, k \in 1..Len(cells) : j # k => Apart(cells[j], cells[k])
            /\ area = img.width * img.height

\* gaps in both directions: 5 x-bands and 3 y-bands
C25_Witness ==
    /\ JustDetected
    /\ file = SheetGaps
    /\ LET img == LoadImage(file)
       IN  /\ Len(FindGaps(img, "vertical")) = 4
           /\ Len(FindGaps(img, "horizontal")) = 2
           /\ Len(CandidateCells(
                      Boundaries(FindGaps(img, "vertical"), img.width),
                      Boundaries(FindGaps(img, "horizontal"), img.height))) = 15


\* C26: regions do not overlap.  Any two distinct regions returned by
\* findSpriteRegions are disjoint rectangles, and each region, padding
\* included, lies inside the candidate cell it was trimmed from.
C26_RegionsDisjoint ==
    JustDetected /\ GapsSearched =>
        LET img == LoadImage(file)
            cells == CandidateCells(
                         Boundaries(FindGaps(img, "vertical"), img.width),
                         Boundaries(FindGaps(img, "horizontal"), img.height))
            regions == FindSpriteRegions(img)
            Apart(a, b) ==
                \/ a.x + a.width <= b.x \/ b.x + b.width <= a.x
                \/ a.y + a.height <= b.y \/ b.y + b.height <= a.y
            Within(r, c) ==
                /\ c.x <= r.x /\ r.x + r.width <= c.x + c.width
                /\ c.y <= r.y /\ r.y + r.height <= c.y + c.height
        IN  /\ \A j, k \in 1..Len(regions) : j # k => Apart(regions[j], regions[k])
            /\ Len(regions) > 0 =>
                   \A k \in 1..Len(cells) :
                       RegionHasContent(img, cells[k])
                           /\ TrimRegion(img, cells[k]) # Null =>
                               Within(TrimRegion(img, cells[k]), cells[k])


\* C27: tile count per branch.  extractFromImage returns exactly 1 tile
\* for a Single detection, one tile per region in the region finder's order
\* (hence 1 to 20 tiles) for Regions, and between 0 and
\* min(cols * rows, maxSprites) tiles for Grid; so an empty tile list is
\* returned only for a Grid detection, and the classifier never returns
\* Regions with an empty list.
C27_TileCountPerBranch ==
    /\ Detected /\ detection.type = "regions" =>
           Len(detection.regions) >= 1 /\ Len(detection.regions) <= 20
    /\ Extracted =>
           /\ detection.type = "single" => Len(sprites) = 1
           /\ detection.type = "regions" =>
                  /\ Len(sprites) = Len(detection.regions)
                  /\ \A k \in 1..Len(sprites) :
                         sprites[k].region = detection.regions[k]
           /\ detection.type = "grid" =>
                  Len(sprites) <= Min(detection.cols * detection.rows,
                                      this.maxSprites)
           /\ sprites = <<>> => detection.type = "grid"

\* two regions, two tiles in the regions' order
C27_Witness ==
    /\ pc = "return"
    /\ file = Twins
    /\ detection.type = "regions"
    /\ Len(detection.regions) = 2
    /\ Len(sprites) = 2
    /\ sprites[1].region = detection.regions[1]
    /\ sprites[2].region = detection.regions[2]


\* C28: cell size versus visibility floor.  A grid cell can pass the
\* Content Test only if cellSize * cellSize > minPixelThreshold; with the
\* default minPixelThreshold of 500 every image classified as Grid with
\* cellSize 16 (256 pixels per cell) yields zero tiles, whatever the cells
\* contain.
C28_CellSizeVersusFloor ==
    Detected /\ detection.type = "grid" =>
        /\ sprites # <<>> =>
               detection.cellSize * detection.cellSize > this.minPixelThreshold
        /\ this.minPixelThreshold = 500 /\ detection.cellSize = 16 =>
               sprites = <<>>

\* 39 cells of 16 px, each with a sprite of 121 colored pixels, and no tile
C28_Witness ==
    /\ pc = "done"
    /\ file = Tiles16
    /\ this.minPixelThreshold = 500
    /\ detection.type = "grid" /\ detection.cellSize = 16
    /\ ColoredPixels(DrawImage(LoadImage(file), 0, 0, 16, 16, 0, 0, 16, 16)) = 121
    /\ sprites = <<>>


\* C29: region tile geometry.  For a region of size w x h the tile is a
\* square of side s = max(w, h); the pixels of the source inside the region
\* are copied at offset (floor((s - w) / 2), floor((s - h) / 2)); every
\* other pixel of the tile is fully transparent; and the tile carries the
\* region it was cut from unchanged.
C29_RegionTileGeometry ==
    Detected /\ detection.type = "regions" =>
        \A k \in 1..Len(sprites) :
            LET img == LoadImage(file)
                tile == sprites[k].imageData
                r == sprites[k].region
                s == IF r.width >= r.height THEN r.width ELSE r.height
                dx == (s - r.width) \div 2
                dy == (s - r.height) \div 2
                Expected(tx, ty) ==
                    LET sx == r.x + tx - dx
                        sy == r.y + ty - dy
                    IN  IF /\ tx >= dx /\ tx < dx + r.width
                           /\ ty >= dy /\ ty < dy + r.height
                           /\ sx >= 0 /\ sx < img.width
                           /\ sy >= 0 /\ sy < img.height
                        THEN img.data[sy * img.width + sx + 1]
                        ELSE [r |-> 0, g |-> 0, b |-> 0, a |-> 0]
            IN  /\ r = detection.regions[k]
                /\ tile.width = s /\ tile.height = s
                /\ Len(tile.data) = s * s
                /\ \A i \in 1..(s * s) :
                       tile.data[i] = Expected((i - 1) % s, (i - 1) \div s)

\* a region 34 wide and 16 high: a tile of side 34 with 9 transparent rows
\* above the region's pixels
C29_Witness ==
    /\ pc = "return"
    /\ file = Ghost
    /\ Len(sprites) = 2
    /\ sprites[2].region = [x |-> 98, y |-> 3, width |-> 34, height |-> 16]
    /\ sprites[2].imageData.width = 34 /\ sprites[2].imageData.height = 34
    /\ At(sprites[2].imageData, 2, 8).a = 0
    /\ At(sprites[2].imageData, 2, 11) = Red


\* C30: configuration.  For every non-negative integer supplied as
\* minPixelThreshold or maxSprites, 0 included, the extractor uses exactly
\* the supplied value as the visibility floor of the content test, resp. as
\* the cap of grid extraction; the defaults 500 and 64 apply only when the
\* option is omitted.  The cellSize option has no influence on
\* classification or extraction.
C30_Configuration ==
    LET floor == IF "minPixelThreshold" \in DOMAIN options
                 THEN options.minPixelThreshold ELSE 500
        cap == IF "maxSprites" \in DOMAIN options
               THEN options.maxSprites ELSE 64
    IN  /\ this.minPixelThreshold = floor
        /\ this.maxSprites = cap
        /\ Detected =>
               detection = DetectSpriteType(LoadImage(file), AnalyzeImage(LoadImage(file)))
        /\ Detected /\ detection.type = "grid" =>
               /\ Len(sprites) <= cap
               /\ \A k \in 1..Len(sprites) :
                      /\ VisiblePixels(sprites[k].imageData) > floor
                      /\ sprites[k].imageData.width = detection.cellSize

====
